---- MODULE Spec2Model ----
(***************************************************************************)
(* A model of the AIM mechanism of private-pgm (mechanisms/aim_simple.py), *)
(* the CliqueVector algebra (src/mbi/clique_vector.py) and the mirror      *)
(* descent solver (src/mbi/estimation.py).                                 *)
(*                                                                         *)
(* Numbers.  The code computes in floating point.  The model computes the  *)
(* same expressions exactly: privacy budgets are rationals in units of the *)
(* configured rho, sizes are counted in 8-byte cells instead of megabytes  *)
(* (both sides of every size comparison are scaled by 2^20/8), and step    *)
(* sizes and potentials are integers scaled by a power of two.             *)
(***************************************************************************)
EXTENDS Integers, Sequences, FiniteSets, TLC

\* ---------------------------------------------------------------- bounds
\* longest key list of a CliqueVector the model builds
MaxKeys == 2
\* longest workload list passed to AIM.run
MaxWorkload == 8
\* longest initial_cliques list passed to AIM.run
MaxInitial == 11
\* most run calls on one mechanism
MaxRuns == 2
\* longest workload passed to compile_workload on its own
MaxCompile == 2
\* longest measurement list passed to minimum_variance_unbiased_total
MaxMeasurements == 2
\* most iterations asked of mirror_descent
MaxIters == 3

VARIABLES
    \* --- CliqueVector calls
    cv,          \* the receiver CliqueVector
    cv_other,    \* the vector passed to combine
    cv_prev,     \* the receiver as it was before the last call
    cv_arg,      \* the clique passed to the last project call
    cv_result,   \* what the last project call returned or raised
    cv_op        \* the last call: "none", "project" or "combine"

cvVars == <<cv, cv_other, cv_prev, cv_arg, cv_result, cv_op>>

VARIABLES
    \* --- the AIM mechanism
    rho_used,        \* self.rho_used, in units of self.rho
    max_model_size,  \* self.max_model_size, in cells
    pc,              \* where run is: "idle" before the first call
    runs,            \* the run calls made on this mechanism
    workload,        \* run's argument: a list of <<clique, weight>>
    initial_cliques, \* the list run measures in its initial round
    candidates,      \* the items of compile_workload(workload)
    measurements,    \* the LinearMeasurement list
    model_cliques,   \* model.cliques of the current model
    model_potentials,\* model.potentials of the current model: its items
    warm_start,      \* what line 166 gave to the last refit of a round
    iterations,      \* the number of adaptive rounds of this run
    t,               \* the adaptive rounds completed
    size_limits,     \* the size_limit of every round of this run so far
    small_candidates,\* the keys filter_candidates kept in this round
    selected,        \* the clique worst_approximated returned
    mech_calls,      \* the zcdp_gaussian_mech calls made so far
    mech_rho         \* the rho passed to the last zcdp_gaussian_mech call

aimVars == <<rho_used, max_model_size, pc, runs, workload, initial_cliques,
             candidates, measurements, model_cliques, model_potentials,
             warm_start, iterations, t, size_limits, small_candidates,
             selected, mech_calls, mech_rho>>

VARIABLES
    \* --- calls of the pure functions
    fn_call,     \* the function called: "none" before the call
    fn_args,     \* its arguments
    fn_result    \* what it returned

fnVars == <<fn_call, fn_args, fn_result>>

VARIABLES
    \* --- a mirror_descent call
    md_pc,       \* "idle", "loop" (before an iteration), "done", "ValueError"
    md_args,     \* the arguments of the call
    potentials,  \* the local potentials (theta), in units of 1/AlphaScale
    alpha,       \* the local alpha, in units of 1/AlphaScale
    md_t,        \* the update steps made
    known_total, \* known_total after _initialize
    md_initial,  \* the potentials _initialize returned
    md_result,   \* the GraphicalModel returned
    rejected,    \* the update steps whose sufficient-decrease test failed
    md_last      \* the last update step: theta and alpha before it, dL, the test

mdVars == <<md_pc, md_args, potentials, alpha, md_t, known_total, md_initial,
            md_result, rejected, md_last>>

vars == <<cvVars, aimVars, fnVars, mdVars>>

\* what the actions of one part leave alone
notCV == <<aimVars, fnVars, mdVars>>
notAIM == <<cvVars, fnVars, mdVars>>
notFN == <<cvVars, aimVars, mdVars>>
notMD == <<cvVars, aimVars, fnVars>>

\* ------------------------------------------------------------ attributes
\* The attribute domain (Domain, external): three binary attributes.
Attrs == {"A", "B", "C"}

\* Domain.config: the cardinality of an attribute
Card(a) == 2

\* A clique is a tuple of distinct attribute names (a dictionary key).
IsClique(cl) ==
    /\ Len(cl) >= 1
    /\ \A i, j \in DOMAIN cl : i # j => cl[i] # cl[j]

AllCliques ==
    {cl \in UNION {[1..n -> Attrs] : n \in 1..Cardinality(Attrs)} : IsClique(cl)}

\* set(clique)
AsSet(cl) == {cl[i] : i \in DOMAIN cl}

\* set(a) <= set(b)
SubsetEq(a, b) == AsSet(a) \subseteq AsSet(b)

RECURSIVE SumFn(_, _)
\* the sum of f[x] over x in S
SumFn(f, S) ==
    IF S = {} THEN 0
    ELSE LET x == CHOOSE y \in S : TRUE
         IN f[x] + SumFn(f, S \ {x})

RECURSIVE ProdCard(_)
\* Domain.size(attrs): the product of the attributes' cardinalities
ProdCard(S) ==
    IF S = {} THEN 1
    ELSE LET x == CHOOSE y \in S : TRUE
         IN Card(x) * ProdCard(S \ {x})

\* --------------------------------------------------------------- factors
\* Factor (external): a dense table over the assignments to a clique.
Assign(S) == [S -> 0..1]

\* the position of an assignment in the factor's flattened table
RECURSIVE CellIndex(_, _)
CellIndex(a, cl) ==
    IF cl = <<>> THEN 0
    ELSE a[Head(cl)] + 2 * CellIndex(a, Tail(cl))

\* a factor whose cell number k holds p * (k + 1); p = 0 is Factor.zeros
FactorOf(cl, p) ==
    [dom |-> cl, val |-> [a \in Assign(AsSet(cl)) |-> p * (1 + CellIndex(a, cl))]]

\* Factor.zeros(domain.project(cl))
FactorZeros(cl) == FactorOf(cl, 0)

\* restriction of an assignment to the attributes S
Restrict(b, S) == [x \in S |-> b[x]]

\* Factor.project(clique): sum out the attributes that are not in clique
FactorProject(f, clique) ==
    [dom |-> clique,
     val |-> [a \in Assign(AsSet(clique)) |->
                SumFn(f.val, {b \in Assign(AsSet(f.dom)) :
                                 Restrict(b, AsSet(clique)) = a})]]

\* Factor.__add__ of a factor g over a sub-clique of f's clique (g is
\* broadcast over the attributes it does not mention)
FactorAdd(f, g) ==
    [dom |-> f.dom,
     val |-> [b \in Assign(AsSet(f.dom)) |->
                f.val[b] + g.val[Restrict(b, AsSet(g.dom))]]]

\* const * Factor
FactorScale(c, f) == [dom |-> f.dom, val |-> [b \in DOMAIN f.val |-> c * f.val[b]]]

\* ---------------------------------------------------------- CliqueVector
\* A dictionary is its keys in insertion order and its items.  CliqueVector
\* is a dict that also keeps the dictionary it was built from in the
\* attribute `dictionary`.
Dict(keys, items) == [keys |-> keys, items |-> items]

\* CliqueVector.__init__
CliqueVector(dictionary) ==
    [keys |-> dictionary.keys, items |-> dictionary.items,
     dictionary |-> dictionary]

\* {cl: mk(cl) for cl in cliques}: a repeated key keeps its first position
RECURSIVE DistinctKeys(_)
DistinctKeys(cliques) ==
    IF cliques = <<>> THEN <<>>
    ELSE LET rest == DistinctKeys(SubSeq(cliques, 1, Len(cliques) - 1))
             last == cliques[Len(cliques)]
         IN IF \E i \in DOMAIN rest : rest[i] = last THEN rest
            ELSE Append(rest, last)

\* CliqueVector.zeros(domain, cliques)
zeros(cliques) ==
    LET keys == DistinctKeys(cliques)
    IN CliqueVector(Dict(keys, [cl \in {keys[i] : i \in DOMAIN keys} |->
                                   FactorZeros(cl)]))

\* CliqueVector.cliques
cliques_of(self) == self.keys

KeySet(self) == {self.keys[i] : i \in DOMAIN self.keys}

\* project with the scan reversed: the last covering key wins
project_last_cover(self, clique) ==
    LET covering == {i \in DOMAIN self.keys : SubsetEq(clique, self.keys[i])}
    IN IF covering = {} THEN [kind |-> "ValueError"]
       ELSE LET i == CHOOSE k \in covering : \A m \in covering : m <= k
            IN [kind |-> "factor",
                factor |-> FactorProject(self.items[self.keys[i]], clique)]

RECURSIVE project_scan(_, _, _)
\* the loop of CliqueVector.project from position i on
project_scan(self, clique, i) ==
    IF i > Len(cliques_of(self)) THEN [kind |-> "ValueError"]
    ELSE LET cl == cliques_of(self)[i]
         IN IF SubsetEq(clique, cl)
            THEN [kind |-> "factor",
                  factor |-> FactorProject(self.items[cl], clique)]
            ELSE project_scan(self, clique, i + 1)

\* CliqueVector.project(clique)
project(self, clique) == project_scan(self, clique, 1)

\* self[cl2] += other[cl]
AddInto(self, cl2, f) ==
    [self EXCEPT !.items[cl2] = FactorAdd(@, f)]

RECURSIVE combine_every_cover(_, _, _, _)
\* the inner loop of combine without its break: every covering key is added to
combine_every_cover(self, other, cl, j) ==
    IF j > Len(self.keys) THEN self
    ELSE LET cl2 == self.keys[j]
         IN IF SubsetEq(cl, cl2)
            THEN combine_every_cover(AddInto(self, cl2, other.items[cl]),
                                     other, cl, j + 1)
            ELSE combine_every_cover(self, other, cl, j + 1)

RECURSIVE combine_inner(_, _, _, _)
\* the inner loop of CliqueVector.combine, for the clique cl of other, from
\* the receiver's key number j on
combine_inner(self, other, cl, j) ==
    IF j > Len(self.keys) THEN self
    ELSE LET cl2 == self.keys[j]
         IN IF SubsetEq(cl, cl2)
            THEN AddInto(self, cl2, other.items[cl])
            ELSE combine_inner(self, other, cl, j + 1)

RECURSIVE combine_outer(_, _, _)
\* the outer loop of CliqueVector.combine from other's key number i on
combine_outer(self, other, i) ==
    IF i > Len(other.keys) THEN self
    ELSE combine_outer(combine_inner(self, other, other.keys[i], 1),
                       other, i + 1)

\* CliqueVector.combine(other): the receiver after the call
combine(self, other) == combine_outer(self, other, 1)

\* CliqueVector.__mul__
cv_mul(self, const) ==
    CliqueVector(Dict(self.keys,
                      [cl \in KeySet(self) |-> FactorScale(const, self.items[cl])]))

\* CliqueVector.__add__ with another vector
cv_add(self, other) ==
    CliqueVector(Dict(self.keys,
                      [cl \in KeySet(self) |->
                         FactorAdd(self.items[cl], other.items[cl])]))

\* CliqueVector.__sub__
cv_sub(self, other) == cv_add(self, cv_mul(other, -1))

\* ------------------------------------------------------------- rationals
RECURSIVE GCD(_, _)
GCD(a, b) == IF b = 0 THEN a ELSE GCD(b, a % b)

\* the rational n/d (d > 0) in lowest terms
Rat(n, d) ==
    LET g == GCD(IF n < 0 THEN -n ELSE n, d)
    IN [num |-> n \div g, den |-> d \div g]

RAdd(x, y) == Rat(x.num * y.den + y.num * x.den, x.den * y.den)
RSub(x, y) == Rat(x.num * y.den - y.num * x.den, x.den * y.den)
RMul(x, y) == Rat(x.num * y.num, x.den * y.den)
RDivInt(x, k) == Rat(x.num, x.den * k)
RLeq(x, y) == x.num * y.den <= y.num * x.den
RLess(x, y) == x.num * y.den < y.num * x.den
RZero == Rat(0, 1)
ROne == Rat(1, 1)

\* ------------------------------------------------------- workload compiler
RECURSIVE SubTuple(_, _)
\* the elements of the tuple s at the positions I, in the order of s
SubTuple(s, I) ==
    IF s = <<>> THEN <<>>
    ELSE LET n == Len(s)
             front == SubTuple(SubSeq(s, 1, n - 1), I)
         IN IF n \in I THEN Append(front, s[n]) ELSE front

\* powerset(iterable): every non-empty combination, in the order of the tuple
powerset(s) == {SubTuple(s, I) : I \in (SUBSET (DOMAIN s)) \ {{}}}

\* the set ans that downward_closure builds
closure_set(Ws) == UNION {powerset(proj) : proj \in Ws}

RECURSIVE Perms(_)
\* every listing of the set S
Perms(S) ==
    IF S = {} THEN {<<>>}
    ELSE UNION {{<<x>> \o p : p \in Perms(S \ {x})} : x \in S}

RECURSIVE SortedByLen(_, _)
\* every listing of S by increasing length, from length n on: sorted() is
\* stable and a set is iterated in hash order
SortedByLen(S, n) ==
    IF n > Cardinality(Attrs) THEN {<<>>}
    ELSE {p \o q : p \in Perms({cl \in S : Len(cl) = n}),
                   q \in SortedByLen(S, n + 1)}

\* downward_closure(Ws): the lists it can return
downward_closure(Ws) == SortedByLen(closure_set(Ws), 1)

\* the keys of {cl: wt for (cl, wt) in workload}
workload_cliques(wl) == {wl[i][1] : i \in DOMAIN wl}

\* weights[cl]: the weight of the last workload entry that names cl
weights(wl) ==
    [cl \in workload_cliques(wl) |->
        LET last == CHOOSE i \in DOMAIN wl :
                       /\ wl[i][1] = cl
                       /\ \A j \in DOMAIN wl : wl[j][1] = cl => j <= i
        IN wl[last][2]]

\* score with the union of the two cliques in place of their intersection
score_union(cl, wl) ==
    LET w == weights(wl)
    IN SumFn([wcl \in DOMAIN w |->
                 w[wcl] * Cardinality(AsSet(cl) \cup AsSet(wcl))], DOMAIN w)

\* score(cl) of compile_workload
score(cl, wl) ==
    LET w == weights(wl)
    IN SumFn([wcl \in DOMAIN w |->
                 w[wcl] * Cardinality(AsSet(cl) \cap AsSet(wcl))], DOMAIN w)

\* the items of the dictionary compile_workload returns
compile_items(wl) ==
    [cl \in closure_set(workload_cliques(wl)) |-> score(cl, wl)]

\* compile_workload(workload): the dictionaries it can return, one for each
\* order downward_closure can list the candidates in
compile_workload(wl) ==
    {Dict(order, compile_items(wl)) :
        order \in downward_closure(workload_cliques(wl))}

\* ------------------------------------------------------ model-size filter
\* the attributes two of which some clique holds together
Adjacent(cliques, x, y) == \E cl \in cliques : {x, y} \subseteq AsSet(cl)

\* junction_tree.make_junction_tree and maximal_cliques (external): the
\* maximal cliques of the graph over the domain's attributes in which the
\* attributes of each clique are connected.  Over three attributes every
\* graph is chordal, so triangulation adds no edge.
maximal_cliques(domain, cliques) ==
    LET nodes == domain \cup UNION {AsSet(cl) : cl \in cliques}
        complete(S) == \A x, y \in S : x # y => Adjacent(cliques, x, y)
    IN {S \in (SUBSET nodes) \ {{}} :
           /\ complete(S)
           /\ \A T \in SUBSET nodes : (S \subseteq T /\ complete(T)) => T = S}

\* hypothetical_model_size(domain, cliques), in cells
hypothetical_model_size(domain, cliques) ==
    LET mc == maximal_cliques(domain, cliques)
    IN SumFn([S \in mc |-> ProdCard(S)], mc)

\* GraphicalModel.domain: the merge of the potentials' factor domains
model_domain(cliques) == UNION {AsSet(cl) : cl \in cliques}

\* the test of filter_candidates with the free cliques left out
keep_candidate_size_only(cl, mcl, size_limit) ==
    RLeq(Rat(hypothetical_model_size(model_domain(mcl),
                                     mcl \cup {cl}), 1), size_limit)

\* the test of filter_candidates on one candidate: cond1 or cond2
keep_candidate(cl, mcl, size_limit) ==
    LET free_cliques == closure_set(mcl)
        cond1 == RLeq(Rat(hypothetical_model_size(model_domain(mcl),
                                                  mcl \cup {cl}), 1),
                      size_limit)
        cond2 == cl \in free_cliques
    IN cond1 \/ cond2

\* filter_candidates(cands, model, size_limit)
filter_candidates(cands, mcl, size_limit) ==
    LET kept == SelectSeq(cands.keys,
                          LAMBDA cl : keep_candidate(cl, mcl, size_limit))
    IN Dict(kept, [cl \in {kept[i] : i \in DOMAIN kept} |-> cands.items[cl]])

\* ------------------------------------------------------- total estimator
\* A LinearMeasurement is [clique, y, stddev, query]: y is the noisy vector
\* and query names the query operator (LinearMeasurement is external).
\* M.query(y): "identity" returns y, "double" 2 * y, "total" the one-cell
\* vector of y's sum, and "pair" the first two cells of y.
RECURSIVE SumSeq(_)
SumSeq(y) == IF y = <<>> THEN 0 ELSE Head(y) + SumSeq(Tail(y))

Query(kind, y) ==
    CASE kind = "identity" -> y
      [] kind = "double" -> [i \in DOMAIN y |-> 2 * y[i]]
      [] kind = "total" -> <<SumSeq(y)>>
      [] kind = "pair" -> SubSeq(y, 1, IF Len(y) < 2 THEN Len(y) ELSE 2)

\* np.allclose(a, b) on small integers: the shapes are broadcast, and shapes
\* that cannot be broadcast raise
allclose(a, b) ==
    IF Len(a) # Len(b) /\ Len(a) # 1 /\ Len(b) # 1 THEN "raises"
    ELSE LET n == IF Len(a) < Len(b) THEN Len(b) ELSE Len(a)
             at(v, i) == IF Len(v) = 1 THEN v[1] ELSE v[i]
         IN IF \A i \in 1..n : at(a, i) = at(b, i) THEN "true" ELSE "false"

\* the test that takes every measurement, whatever its query
qualifies_any(M) == TRUE

\* lines 60-66: the measurement is used when the test holds; a test that
\* raises is caught and the measurement skipped
qualifies(M) == allclose(Query(M.query, M.y), M.y) = "true"

RECURSIVE mvue_loop(_, _)
\* the loop of lines 58-66 from measurement i on: the <<estimate, variance>>
\* pairs appended
mvue_loop(ms, i) ==
    IF i > Len(ms) THEN <<>>
    ELSE LET M == ms[i]
         IN IF qualifies(M)
            THEN <<[estimate |-> SumSeq(M.y),
                    variance |-> M.stddev * M.stddev * Len(M.y)]>>
                 \o mvue_loop(ms, i + 1)
            ELSE mvue_loop(ms, i + 1)

RECURSIVE RSumSeq(_)
RSumSeq(rs) == IF rs = <<>> THEN RZero ELSE RAdd(Head(rs), RSumSeq(Tail(rs)))

\* minimum_variance_unbiased_total(measurements)
minimum_variance_unbiased_total(ms) ==
    LET ev == mvue_loop(ms, 1)
    IN IF Len(ev) = 0 THEN ROne
       ELSE LET inv == RSumSeq([i \in DOMAIN ev |-> Rat(1, ev[i].variance)])
                variance == Rat(inv.den, inv.num)
                estimate == RMul(variance,
                                 RSumSeq([i \in DOMAIN ev |->
                                            Rat(ev[i].estimate, ev[i].variance)]))
            IN IF RLess(ROne, estimate) THEN estimate ELSE ROne

\* --------------------------------------------------------- mirror descent
\* an optional argument
None == [none |-> TRUE]
Some(x) == [none |-> FALSE, value |-> x]

\* the unit of alpha and of the potentials: alpha is halved at most once in
\* each iteration
AlphaScale == 2 ^ (MaxIters + 1)

\* marginal_loss.from_linear_measurements(loss_fn).cliques (external): the
\* distinct cliques of the measurements
loss_cliques(loss_fn) ==
    IF loss_fn.kind = "list"
    THEN DistinctKeys([i \in DOMAIN loss_fn.measurements |->
                          loss_fn.measurements[i].clique])
    ELSE loss_fn.cliques

\* _initialize(domain, loss_fn, known_total, potentials)
initialize(loss_fn, total, pots) ==
    IF loss_fn.kind # "list" /\ total.none
    THEN [error |-> "ValueError"]
    ELSE [error |-> "none",
          known_total |->
              IF total.none
              THEN minimum_variance_unbiased_total(loss_fn.measurements)
              ELSE total.value,
          potentials |->
              IF pots.none THEN zeros(loss_cliques(loss_fn)) ELSE pots.value]

\* marginal_oracle(theta, total) (external): an uninterpreted function
marginal_oracle(theta, total) ==
    [oracle |-> "message_passing_new", theta |-> theta.items, total |-> total]

\* GraphicalModel(potentials, marginals, total)
GraphicalModel(pots, marginals, total) ==
    [potentials |-> pots, marginals |-> marginals, total |-> total]

\* update is jitted: jax rebuilds the CliqueVector argument from the data
\* field registered for it, `dictionary`
jit_view(theta) == CliqueVector(theta.dictionary)

\* update with the step taken whether or not the test holds
update_always_steps(theta, a, dL, sufficient, stepsize) ==
    [theta |-> cv_sub(jit_view(theta), cv_mul(dL, a)),
     alpha |-> IF stepsize.none /\ ~sufficient THEN a \div 2 ELSE a]

\* update(theta, alpha) of mirror_descent (lines 131-148); dL is the
\* gradient of the loss at the marginals and sufficient the outcome of
\* loss - loss2 >= 0.5 * alpha * dL.dot(mu - mu2)
update(theta, a, dL, sufficient, stepsize) ==
    LET theta2 == cv_sub(jit_view(theta), cv_mul(dL, a))
    IN IF ~stepsize.none THEN [theta |-> theta2, alpha |-> a]
       ELSE [theta |-> IF sufficient THEN theta2 ELSE jit_view(theta),
             alpha |-> IF sufficient THEN a ELSE a \div 2]

\* range(iters) with one iteration too many
loop_continues_inclusive(k, iters) == k <= iters

\* for t in range(iters): whether another iteration follows k iterations
loop_continues(k, iters) == k < iters

\* no mirror_descent call is modelled
MDIdle ==
    /\ md_pc = "idle"
    /\ md_args = <<>>
    /\ potentials = CliqueVector(Dict(<<>>, <<>>))
    /\ alpha = 0
    /\ md_t = 0
    /\ known_total = RZero
    /\ md_initial = CliqueVector(Dict(<<>>, <<>>))
    /\ md_result = None
    /\ rejected = 0
    /\ md_last = None

\* mirror_descent is called: _initialize and line 150
CallMirrorDescent(args) ==
    /\ md_pc = "idle"
    /\ md_args' = args
    /\ LET init == initialize(args.loss_fn, args.known_total, args.potentials)
       IN IF init.error # "none"
          THEN /\ md_pc' = init.error
               /\ UNCHANGED <<potentials, alpha, known_total, md_initial>>
          ELSE /\ md_pc' = "loop"
               /\ potentials' = init.potentials
               /\ md_initial' = init.potentials
               /\ known_total' = init.known_total
               /\ alpha' = IF args.stepsize.none THEN 2 * AlphaScale
                           ELSE args.stepsize.value
    /\ UNCHANGED <<md_t, md_result, rejected, md_last>>
    /\ UNCHANGED notMD

\* the gradients the loss can have: every cell g, for g in -1..1
Gradient(theta, g) ==
    CliqueVector(Dict(theta.keys, [cl \in KeySet(theta) |->
        [dom |-> cl, val |-> [b \in Assign(AsSet(cl)) |-> g]]]))

\* one iteration of the loop of lines 151-153.  The gradient and the
\* outcome of the test come from the loss and the oracle (external); with a
\* zero gradient theta2 = theta and the test holds as 0 >= 0.
Update ==
    /\ md_pc = "loop"
    /\ loop_continues(md_t, md_args.iters)
    /\ \E g \in -1..1 :
       \E sufficient \in IF g = 0 \/ ~md_args.stepsize.none
                         THEN {TRUE} ELSE BOOLEAN :
          LET dL == Gradient(potentials, g)
              new == update(potentials, alpha, dL, sufficient, md_args.stepsize)
          IN /\ potentials' = new.theta
             /\ alpha' = new.alpha
             /\ rejected' = IF sufficient THEN rejected ELSE rejected + 1
             /\ md_last' = Some([theta |-> potentials, alpha |-> alpha,
                                 dL |-> dL, sufficient |-> sufficient])
    /\ md_t' = md_t + 1
    /\ UNCHANGED <<md_pc, md_args, known_total, md_initial, md_result>>
    /\ UNCHANGED notMD

\* lines 155-156: the marginals of the final potentials, and the model
Return ==
    /\ md_pc = "loop"
    /\ ~loop_continues(md_t, md_args.iters)
    /\ md_result' = Some(GraphicalModel(potentials,
                                        marginal_oracle(potentials, known_total),
                                        known_total))
    /\ md_pc' = "done"
    /\ UNCHANGED <<md_args, potentials, alpha, md_t, known_total, md_initial,
                   rejected, md_last>>
    /\ UNCHANGED notMD

\* --------------------------------------------------------------- AIM.run
\* AIM.__init__: no budget is spent, nothing has run
AIMNew(mms) ==
    /\ rho_used = RZero
    /\ max_model_size = mms
    /\ pc = "idle"
    /\ runs = 0
    /\ workload = <<>>
    /\ initial_cliques = <<>>
    /\ candidates = <<>>
    /\ measurements = <<>>
    /\ model_cliques = {}
    /\ model_potentials = <<>>
    /\ warm_start = None
    /\ iterations = 0
    /\ t = 0
    /\ size_limits = <<>>
    /\ small_candidates = {}
    /\ selected = <<>>
    /\ mech_calls = 0
    /\ mech_rho = RZero

\* self.max_model_size of the mechanisms built, in cells
ModelSizes == {0, 120}

\* AIM.__init__
AIMInit == \E mms \in ModelSizes : AIMNew(mms)

\* no mechanism is modelled
AIMIdle == AIMNew(0)

\* rho_oneway = self.rho * .05 and rho_iterations = self.rho * .95
rho_oneway == Rat(5, 100)
rho_iterations == Rat(95, 100)

\* oneway = [cl for cl in candidates if len(cl) == 1]
oneway(cands) == {cl \in DOMAIN cands : Len(cl) = 1}

\* rho_oneway_i = rho_oneway / len(oneway)
rho_oneway_i == RDivInt(rho_oneway, Cardinality(oneway(candidates)))

\* rho_iters_i / 2, with rho_iters_i = rho_iterations / iterations
rho_iters_half == RDivInt(RDivInt(rho_iterations, iterations), 2)

\* zcdp_gaussian_mech with = in place of +=
zcdp_overwrite(used, rho) == rho

\* zcdp_gaussian_mech(val, sensitivity, rho): self.rho_used after the call
zcdp_gaussian_mech(used, rho) == RAdd(used, rho)

\* a size limit that follows the budget left instead of the budget spent
size_limit_remaining(mms, used) == RMul(Rat(mms, 1), RSub(ROne, used))

\* size_limit = self.max_model_size * self.rho_used / self.rho
size_limit_of(mms, used) == RMul(Rat(mms, 1), used)

\* the cliques of the measurements taken so far
measured_cliques(ms) == {ms[i].clique : i \in DOMAIN ms}

\* the items of the potentials the k-th mirror_descent call of a run returns
\* over the cliques S (max_iters >= 1: update builds a new CliqueVector over
\* the same keys).  The fit is external: its result is an opaque table,
\* told from the results of the other fits by k.
fitted(S, k) == [cl \in S |-> FactorOf(cl, k)]

\* CliqueVector.expand(cliques), which clique_vector.py does not define, as
\* the specification describes the warm start: the zero vector over the
\* cliques, with the receiver combined into it
expand(self, cliques) == combine(zeros(cliques), self)

\* Mechanism.exponential_mechanism(errors, epsilon, sensitivity) (external,
\* of the Mechanism base class) samples one key of errors: the keys it can
\* return
exponential_mechanism(errors) == errors

\* worst_approximated(candidates, answers, model, rho), for a non-empty
\* candidates: errors has one key for each candidate
worst_approximated(cands) == exponential_mechanism(cands)

\* a state in which no run call is under way
Resting == {"idle", "done", "ZeroDivisionError", "ValueError",
            "AttributeError"}

\* run is called: lines 121-135, up to the loop over initial_cliques.
\* ic = <<>> is initial_cliques = None (or empty): the one-way marginals are
\* used, in the order the candidates dictionary lists them.
RunStart(wl, ic, maxRuns) ==
    /\ pc \in Resting
    /\ runs < maxRuns
    /\ runs' = runs + 1
    /\ workload' = wl
    /\ candidates' = compile_items(wl)
    /\ measurements' = <<>>
    /\ model_cliques' = {}
    /\ model_potentials' = <<>>
    /\ warm_start' = None
    /\ iterations' = 0
    /\ t' = 0
    /\ size_limits' = <<>>
    /\ small_candidates' = {}
    /\ selected' = <<>>
    /\ IF oneway(compile_items(wl)) = {}
       THEN /\ pc' = "ZeroDivisionError"
            /\ initial_cliques' = ic
       ELSE /\ pc' = "initial"
            /\ IF ic = <<>>
               THEN initial_cliques' \in Perms(oneway(compile_items(wl)))
               ELSE initial_cliques' = ic
    /\ UNCHANGED <<rho_used, max_model_size, mech_calls, mech_rho>>
    /\ UNCHANGED notAIM

\* one pass of the loop over initial_cliques (lines 136-140)
MeasureInitial ==
    /\ pc = "initial"
    /\ Len(measurements) < Len(initial_cliques)
    /\ LET cl == initial_cliques[Len(measurements) + 1]
       IN measurements' = Append(measurements,
              [clique |-> cl, rho |-> rho_oneway_i, std_rho |-> rho_oneway_i])
    /\ rho_used' = zcdp_gaussian_mech(rho_used, rho_oneway_i)
    /\ mech_calls' = mech_calls + 1
    /\ mech_rho' = rho_oneway_i
    /\ UNCHANGED notAIM
    /\ UNCHANGED <<max_model_size, pc, runs, workload, initial_cliques,
                   candidates, model_cliques, model_potentials, warm_start,
                   iterations, t, size_limits, small_candidates, selected>>

\* the initial fit and the round allocation (lines 142-151)
InitialFit ==
    /\ pc = "initial"
    /\ Len(measurements) = Len(initial_cliques)
    /\ model_cliques' = measured_cliques(measurements)
    /\ model_potentials' = fitted(measured_cliques(measurements), 1)
    /\ iterations' = Len(workload) \div 4
    /\ pc' = IF Len(workload) \div 4 = 0 THEN "ZeroDivisionError" ELSE "select"
    /\ UNCHANGED notAIM
    /\ UNCHANGED <<rho_used, max_model_size, runs, workload, initial_cliques,
                   candidates, measurements, warm_start, t, size_limits,
                   small_candidates, selected, mech_calls, mech_rho>>

\* the head of an adaptive round: size_limit, filter_candidates and
\* worst_approximated (lines 153-155); max() of no candidate is a ValueError
RoundSelect ==
    /\ pc = "select"
    /\ t < iterations
    /\ LET size_limit == size_limit_of(max_model_size, rho_used)
           small == {cl \in DOMAIN candidates :
                        keep_candidate(cl, model_cliques, size_limit)}
       IN /\ size_limits' = Append(size_limits, size_limit)
          /\ small_candidates' = small
          /\ IF small = {}
             THEN pc' = "ValueError" /\ selected' = <<>>
             ELSE pc' = "measure" /\ selected' \in worst_approximated(small)
    /\ UNCHANGED notAIM
    /\ UNCHANGED <<rho_used, max_model_size, runs, workload, initial_cliques,
                   candidates, measurements, model_cliques, model_potentials,
                   warm_start, iterations, t, mech_calls, mech_rho>>

\* the measurement of the selected clique (lines 157-161)
RoundMeasure ==
    /\ pc = "measure"
    /\ measurements' = Append(measurements,
           [clique |-> selected, rho |-> rho_iters_half, std_rho |-> rho_oneway_i])
    /\ rho_used' = zcdp_gaussian_mech(rho_used, rho_iters_half)
    /\ mech_calls' = mech_calls + 1
    /\ mech_rho' = rho_iters_half
    /\ pc' = "refit"
    /\ UNCHANGED notAIM
    /\ UNCHANGED <<max_model_size, runs, workload, initial_cliques, candidates,
                   model_cliques, model_potentials, warm_start, iterations, t,
                   size_limits, small_candidates, selected>>

\* model.potentials.expand(pcliques) at line 166, with the CliqueVector of
\* clique_vector.py: the class defines no expand and dict has none, so the
\* call raises AttributeError and run ends in the first round
RoundExpandMissing ==
    /\ pc = "refit"
    /\ pc' = "AttributeError"
    /\ UNCHANGED notAIM
    /\ UNCHANGED <<rho_used, max_model_size, runs, workload, initial_cliques,
                   candidates, measurements, model_cliques, model_potentials,
                   warm_start, iterations, t, size_limits, small_candidates,
                   selected, mech_calls, mech_rho>>

\* the warm-started refit that ends a round (lines 165-169), with a
\* CliqueVector that provides expand as the specification describes it:
\* pcliques is list(set(...)), in any order, and the refit returns new
\* potentials over the cliques of the potentials it was started from.  The
\* prior potentials are listed in the order of the measurements: combine
\* places each clique of other on its own, so their order changes nothing.
RoundRefit ==
    /\ pc = "refit"
    /\ LET pcliques == measured_cliques(measurements)
           prior == DistinctKeys([i \in 1..(Len(measurements) - 1) |->
                                     measurements[i].clique])
       IN /\ warm_start' \in
                {Some(expand(CliqueVector(Dict(prior, model_potentials)),
                             order).items) : order \in Perms(pcliques)}
          /\ model_cliques' = pcliques
          /\ model_potentials' = fitted(pcliques, t + 2)
    /\ t' = t + 1
    /\ pc' = "select"
    /\ UNCHANGED notAIM
    /\ UNCHANGED <<rho_used, max_model_size, runs, workload, initial_cliques,
                   candidates, measurements, iterations, size_limits,
                   small_candidates, selected, mech_calls, mech_rho>>

\* the final refit, sampling and return (lines 172-179)
Finish ==
    /\ pc = "select"
    /\ t = iterations
    /\ model_cliques' = measured_cliques(measurements)
    /\ model_potentials' =
           fitted(measured_cliques(measurements), iterations + 2)
    /\ pc' = "done"
    /\ UNCHANGED notAIM
    /\ UNCHANGED <<rho_used, max_model_size, runs, workload, initial_cliques,
                   candidates, measurements, warm_start, iterations, t,
                   size_limits, small_candidates, selected, mech_calls,
                   mech_rho>>

RunSteps ==
    \/ MeasureInitial
    \/ InitialFit
    \/ RoundSelect
    \/ RoundMeasure
    \/ RoundExpandMissing
    \/ RoundRefit
    \/ Finish

\* ------------------------------------------------- parts not under study
\* no CliqueVector call is modelled
CVIdle ==
    /\ cv = CliqueVector(Dict(<<>>, <<>>))
    /\ cv_other = CliqueVector(Dict(<<>>, <<>>))
    /\ cv_prev = CliqueVector(Dict(<<>>, <<>>))
    /\ cv_arg = <<>>
    /\ cv_result = [kind |-> "none"]
    /\ cv_op = "none"

\* no function call is modelled
FNIdle ==
    /\ fn_call = "none"
    /\ fn_args = <<>>
    /\ fn_result = <<>>

\* the attributes a list of cliques mentions
AttrsOf(cls) == UNION {AsSet(cls[i]) : i \in DOMAIN cls}

\* ------------------------------------------- specification: CliqueVector
\* the cliques the vectors of this specification are keyed by
CVCliques ==
    {<<"A">>, <<"C">>, <<"A", "B">>, <<"B", "C">>, <<"A", "B", "C">>}

\* the cliques project is asked for
CVQueries == CVCliques \cup {<<"B">>, <<"B", "A">>}

KeyLists ==
    {ks \in UNION {[1..n -> CVCliques] : n \in 1..MaxKeys} :
        \A i, j \in DOMAIN ks : i # j => ks[i] # ks[j]}

\* a vector over keys whose factor number i has pattern p * i
MakeVector(keys, p) ==
    CliqueVector(Dict(keys, [cl \in {keys[i] : i \in DOMAIN keys} |->
        FactorOf(cl, p * (CHOOSE i \in DOMAIN keys : keys[i] = cl))]))

CVInit ==
    /\ cv \in {MakeVector(ks, p) : ks \in KeyLists, p \in 0..1}
    /\ cv_other \in {MakeVector(ks, 1) : ks \in KeyLists}
    /\ cv_prev = cv
    /\ cv_arg = <<>>
    /\ cv_result = [kind |-> "none"]
    /\ cv_op = "none"

\* a call of cv.project(clique)
Project(clique) ==
    /\ cv_op = "none"
    /\ cv_op' = "project"
    /\ cv_arg' = clique
    /\ cv_prev' = cv
    /\ cv_result' = project(cv, clique)
    /\ UNCHANGED <<cv, cv_other>>
    /\ UNCHANGED notCV

\* a call of cv.combine(cv_other)
Combine ==
    /\ cv_op = "none"
    /\ cv_op' = "combine"
    /\ cv_prev' = cv
    /\ cv' = combine(cv, cv_other)
    /\ UNCHANGED <<cv_other, cv_arg, cv_result>>
    /\ UNCHANGED notCV

NextCV ==
    \/ \E clique \in CVQueries : Project(clique)
    \/ Combine

InitCV == CVInit /\ AIMIdle /\ FNIdle /\ MDIdle

SpecCV == InitCV /\ [][NextCV]_vars

\* the positions of the keys of a key list that cover the clique c, as sets
Covering(keys, c) == {i \in DOMAIN keys : AsSet(c) \subseteq AsSet(keys[i])}

MinOf(S) == CHOOSE k \in S : \A m \in S : k <= m

\* C4: project(c) returns the projection onto c of the factor stored under
\* the first key, in iteration order, that is a superset of c; with no such
\* key it raises ValueError and returns no factor; the vector is unchanged.
C4_ProjectFirstCover ==
    cv_op = "project" =>
        LET covering == Covering(cv_prev.keys, cv_arg)
        IN /\ cv = cv_prev
           /\ covering # {} =>
                cv_result = [kind |-> "factor",
                             factor |-> FactorProject(
                                 cv_prev.items[cv_prev.keys[MinOf(covering)]],
                                 cv_arg)]
           /\ covering = {} => cv_result = [kind |-> "ValueError"]

\* a project call with two covering keys whose projections differ
C4_Witness ==
    /\ cv_op = "project"
    /\ \E i, j \in Covering(cv.keys, cv_arg) :
          /\ i < j
          /\ FactorProject(cv.items[cv.keys[i]], cv_arg)
               # FactorProject(cv.items[cv.keys[j]], cv_arg)
    /\ cv_result.kind = "factor"

\* the cliques of other that combine adds into the receiver's key number k
AddedInto(k) ==
    {c \in KeySet(cv_other) :
        /\ Covering(cv_prev.keys, c) # {}
        /\ MinOf(Covering(cv_prev.keys, c)) = k}

\* C5: combine(other) adds other[c] into the first receiver key that is a
\* superset of c and into no other slot, drops a clique of other that no key
\* covers, and keeps the receiver's keys; other is not modified.
C5_CombineFirstCover ==
    cv_op = "combine" =>
        /\ cv.keys = cv_prev.keys
        /\ cv_other = MakeVector(cv_other.keys, 1)
        /\ \A k \in DOMAIN cv_prev.keys :
             LET key == cv_prev.keys[k]
             IN /\ cv.items[key].dom = key
                /\ \A b \in Assign(AsSet(key)) :
                     cv.items[key].val[b] =
                       cv_prev.items[key].val[b]
                       + SumFn([c \in AddedInto(k) |->
                                  cv_other.items[c].val[Restrict(b, AsSet(c))]],
                               AddedInto(k))

\* a combine call in which one clique of other has two covering keys and
\* another has none
C5_Witness ==
    /\ cv_op = "combine"
    /\ \E c \in KeySet(cv_other) : Cardinality(Covering(cv_prev.keys, c)) >= 2
    /\ \E c \in KeySet(cv_other) : Covering(cv_prev.keys, c) = {}
    /\ cv # cv_prev

\* ------------------------------------------------- specification: AIM
\* the list base repeated up to length k
Cycle(base, k) == [i \in 1..k |-> base[((i - 1) % Len(base)) + 1]]

\* the workloads passed to run: lists of <<clique, weight>>, of every length
\* up to MaxWorkload (a clique may be listed more than once)
BaseWorkloads ==
    {<< <<(<<"A">>), 1>> >>,
     << <<(<<"A", "B">>), 1>>, <<(<<"B", "C">>), 1>> >>,
     << <<(<<"A", "B", "C">>), 2>>, <<(<<"A">>), 1>> >>}

Workloads == {Cycle(base, k) : base \in BaseWorkloads, k \in 0..MaxWorkload}

\* the initial_cliques passed to run: <<>> is None
BaseInitial == {<< <<"A">> >>, << <<"A", "B">>, <<"C">> >>}

InitialLists ==
    {<<>>} \cup {Cycle(base, k) : base \in BaseInitial, k \in 1..MaxInitial}

\* The junction tree (external) is built over the model's domain: the model
\* covers runs whose initial cliques mention every attribute of the workload.
Covers(ic, wl) ==
    ic = <<>> \/ AttrsOf([i \in DOMAIN wl |-> wl[i][1]]) \subseteq AttrsOf(ic)

\* one run call on a fresh mechanism
CallRun ==
    /\ pc \in Resting
    /\ \E wl \in Workloads, ic \in InitialLists :
          Covers(ic, wl) /\ RunStart(wl, ic, 1)

NextAIM ==
    \/ CallRun
    \/ RunSteps

InitAIM == AIMInit /\ CVIdle /\ FNIdle /\ MDIdle

SpecAIM == InitAIM /\ [][NextAIM]_vars

RepeatInitial == {<<>>} \cup BaseInitial

\* the workloads of the repeated runs: empty, too short for a round, of one
\* round, and one workload of MaxWorkload entries
RepeatWorkloads ==
    {wl \in Workloads : Len(wl) \in {0, 2, 4}}
        \cup {Cycle(<< <<(<<"A">>), 1>> >>, MaxWorkload)}

\* run calls on one mechanism, one after the other
CallRunAgain ==
    /\ pc \in Resting
    /\ \E wl \in RepeatWorkloads, ic \in RepeatInitial :
          Covers(ic, wl) /\ RunStart(wl, ic, MaxRuns)

NextAIMRepeat ==
    \/ CallRunAgain
    \/ RunSteps

SpecAIMRepeat == InitAIM /\ [][NextAIMRepeat]_vars

\* C2: rho_used is 0 at construction and never decreases, over any sequence
\* of run calls; a zcdp_gaussian_mech call with budget rho_i adds exactly
\* rho_i to it, and every other step (the start of a run, the filter and
\* selection, the fits) leaves it as it is.
C2_BudgetAccounting ==
    /\ rho_used = RZero
    /\ [][/\ RLeq(rho_used, rho_used')
          /\ IF mech_calls' # mech_calls
             THEN rho_used' = RAdd(rho_used, mech_rho')
             ELSE rho_used' = rho_used]_vars

\* a second run on the same mechanism has completed, and the budget of both
\* runs has accumulated
C2_Witness ==
    /\ runs = 2
    /\ pc = "done"
    /\ mech_calls >= 2
    /\ RLess(ROne, rho_used)

\* ------------------------------------- specification: the pure functions
\* the <<clique, weight>> entries of the workloads compiled
CompileEntries ==
    {<<cl, w>> : cl \in {<<"A">>, <<"A", "B">>, <<"B", "A">>, <<"B", "C">>,
                         <<"A", "B", "C">>},
                 w \in 1..2}

CompileWorkloads == UNION {[1..n -> CompileEntries] : n \in 0..MaxCompile}

\* a call of compile_workload(wl)
CallCompileWorkload ==
    /\ fn_call = "none"
    /\ \E wl \in CompileWorkloads :
          /\ fn_args' = [workload |-> wl]
          /\ fn_result' \in compile_workload(wl)
    /\ fn_call' = "compile_workload"
    /\ UNCHANGED notFN

\* the arguments of the filter_candidates calls: the candidates of a
\* workload, a model over cliques that mention every attribute of the
\* candidates (the external junction tree is built over the model's
\* domain), and a size limit
FilterWorkloads ==
    {<< <<(<<"A", "B">>), 1>> >>,
     << <<(<<"A", "B">>), 1>>, <<(<<"B", "C">>), 2>> >>,
     << <<(<<"A", "B", "C">>), 1>> >>}

FilterModels ==
    {m \in SUBSET {<<"A">>, <<"B">>, <<"C">>, <<"A", "B">>, <<"B", "C">>,
                   <<"A", "B", "C">>} : Cardinality(m) \in 1..3}

FilterLimits == {Rat(0, 1), Rat(4, 1), Rat(11, 2), Rat(6, 1), Rat(8, 1)}

\* a call of filter_candidates(cands, model, size_limit)
CallFilterCandidates ==
    /\ fn_call = "none"
    /\ \E wl \in FilterWorkloads, m \in FilterModels, limit \in FilterLimits :
          /\ AttrsOf([i \in DOMAIN wl |-> wl[i][1]]) \subseteq model_domain(m)
          /\ \E cands \in compile_workload(wl) :
                /\ fn_args' = [candidates |-> cands, model_cliques |-> m,
                               size_limit |-> limit]
                /\ fn_result' = filter_candidates(cands, m, limit)
    /\ fn_call' = "filter_candidates"
    /\ UNCHANGED notFN

\* the measurements passed to minimum_variance_unbiased_total
TotalMeasurements ==
    [clique : {<<"A">>},
     y : {<<0, 0>>, <<3, 4>>, <<-5, 1>>, <<7>>, <<1, 2, 3>>},
     stddev : 1..2,
     query : {"identity", "double", "total", "pair"}]

\* a call of minimum_variance_unbiased_total(ms)
CallTotal ==
    /\ fn_call = "none"
    /\ \E ms \in UNION {[1..n -> TotalMeasurements] : n \in 0..MaxMeasurements} :
          /\ fn_args' = [measurements |-> ms]
          /\ fn_result' = minimum_variance_unbiased_total(ms)
    /\ fn_call' = "minimum_variance_unbiased_total"
    /\ UNCHANGED notFN

NextFN ==
    \/ CallCompileWorkload
    \/ CallFilterCandidates
    \/ CallTotal

InitFN == FNIdle /\ CVIdle /\ AIMIdle /\ MDIdle

SpecFN == InitFN /\ [][NextFN]_vars

\* the position of the attribute x in the tuple w
Pos(w, x) == CHOOSE i \in DOMAIN w : w[i] = x

\* c lists some of the attributes of w, in the order of w
IsSubTuple(c, w) ==
    /\ AsSet(c) \subseteq AsSet(w)
    /\ \A i, j \in DOMAIN c : i < j => Pos(w, c[i]) < Pos(w, c[j])

SeqSet(q) == {q[i] : i \in DOMAIN q}

NoRepeat(q) == \A i, j \in DOMAIN q : i # j => q[i] # q[j]

\* C6: compile_workload returns as candidates exactly the non-empty subsets
\* of the workload cliques, listed by non-decreasing size, each scored with
\* the sum over the workload cliques w of weight(w) * |candidate & w| (a
\* clique listed more than once counts once, with the weight listed last);
\* [((A,B), 1)] gives {(A,): 1, (B,): 1, (A,B): 2}.
C6_CompileWorkload ==
    fn_call = "compile_workload" =>
        LET wl == fn_args.workload
            d == fn_result
            wcl == {wl[i][1] : i \in DOMAIN wl}
            lastIdx == {i \in DOMAIN wl :
                           \A j \in DOMAIN wl : wl[j][1] = wl[i][1] => j <= i}
        IN /\ NoRepeat(d.keys)
           /\ DOMAIN d.items = SeqSet(d.keys)
           /\ SeqSet(d.keys) = {c \in AllCliques : \E w \in wcl : IsSubTuple(c, w)}
           /\ {AsSet(c) : c \in SeqSet(d.keys)}
                = {S \in (SUBSET Attrs) \ {{}} : \E w \in wcl : S \subseteq AsSet(w)}
           /\ \A i, j \in DOMAIN d.keys : i < j => Len(d.keys[i]) <= Len(d.keys[j])
           /\ \A c \in SeqSet(d.keys) :
                d.items[c] = SumFn([i \in lastIdx |->
                                      wl[i][2] * Cardinality(AsSet(c) \cap AsSet(wl[i][1]))],
                                   lastIdx)
           /\ wl = << <<(<<"A", "B">>), 1>> >> =>
                d.items = (<<"A">> :> 1) @@ (<<"B">> :> 1) @@ (<<"A", "B">> :> 2)

\* the workload of two overlapping cliques of different weights is compiled
C6_Witness ==
    /\ fn_call = "compile_workload"
    /\ fn_args.workload = << <<(<<"A", "B">>), 1>>, <<(<<"B", "C">>), 2>> >>
    /\ Len(fn_result.keys) = 5
    /\ fn_result.items[<<"B">>] = 3

\* C7: filter_candidates returns exactly the candidates cl, each with its
\* score, for which the hypothetical size of model.cliques + [cl] is at most
\* size_limit or cl is in the downward closure of model.cliques; no other
\* key is returned, and a candidate of the downward closure is kept whatever
\* the size_limit, 0 included.
C7_FilterCandidates ==
    fn_call = "filter_candidates" =>
        LET cands == fn_args.candidates
            m == fn_args.model_cliques
            r == fn_result
            fits(cl) == RLeq(Rat(hypothetical_model_size(model_domain(m),
                                                         m \cup {cl}), 1),
                             fn_args.size_limit)
            free(cl) == \E mc \in m : IsSubTuple(cl, mc)
        IN /\ NoRepeat(r.keys)
           /\ SeqSet(r.keys) = {cl \in SeqSet(cands.keys) : fits(cl) \/ free(cl)}
           /\ DOMAIN r.items = SeqSet(r.keys)
           /\ \A cl \in SeqSet(r.keys) : r.items[cl] = cands.items[cl]

\* a call with size_limit 0 that keeps a candidate of the downward closure
\* and drops another candidate
C7_Witness ==
    /\ fn_call = "filter_candidates"
    /\ fn_args.size_limit = RZero
    /\ fn_result.keys # <<>>
    /\ Len(fn_result.keys) < Len(fn_args.candidates.keys)

RECURSIVE ProdFn(_, _)
\* the product of f[x] over x in S
ProdFn(f, S) ==
    IF S = {} THEN 1
    ELSE LET x == CHOOSE y \in S : TRUE
         IN f[x] * ProdFn(f, S \ {x})

\* M.query(y) equals y cell by cell (a one-cell result is compared with every
\* cell of y, as numpy broadcasts it)
IdentityOn(M) ==
    LET q == Query(M.query, M.y)
    IN /\ Len(q) = Len(M.y) \/ Len(q) = 1
       /\ \A i \in DOMAIN M.y : M.y[i] = IF Len(q) = 1 THEN q[1] ELSE q[i]

\* C9: minimum_variance_unbiased_total raises nothing and returns a value of
\* at least 1: exactly 1 when no measurement's query is the identity on its
\* noisy vector (a measurement whose check raises is skipped), and otherwise
\* max(1, the inverse-variance-weighted combination of the sums of the
\* measurements that qualify).
C9_TotalEstimator ==
    fn_call = "minimum_variance_unbiased_total" =>
        LET ms == fn_args.measurements
            r == fn_result
            Q == {i \in DOMAIN ms : IdentityOn(ms[i])}
            v == [i \in Q |-> ms[i].stddev * ms[i].stddev * Len(ms[i].y)]
            N == SumFn([i \in Q |-> SumSeq(ms[i].y) * ProdFn(v, Q \ {i})], Q)
            D == SumFn([i \in Q |-> ProdFn(v, Q \ {i})], Q)
        IN /\ r.den > 0
           /\ r.num >= r.den
           /\ Q = {} => r = ROne
           /\ Q # {} => IF N > D THEN r.num * D = N * r.den ELSE r = ROne

\* two measurements of different variance qualify and combine to more than 1
C9_Witness ==
    /\ fn_call = "minimum_variance_unbiased_total"
    /\ Len(fn_args.measurements) = 2
    /\ \A i \in 1..2 : IdentityOn(fn_args.measurements[i])
    /\ fn_args.measurements[1].stddev # fn_args.measurements[2].stddev
    /\ SumSeq(fn_args.measurements[1].y) # SumSeq(fn_args.measurements[2].y)
    /\ RLess(ROne, fn_result)

\* ------------------------------------------ specification: mirror descent
\* the measurement lists and the custom loss passed as loss_fn
MDMeasure(cl, y, sd) == [clique |-> cl, y |-> y, stddev |-> sd, query |-> "identity"]

MDLossFns ==
    {[kind |-> "list", measurements |-> << MDMeasure(<<"A">>, <<3, 4>>, 1) >>],
     [kind |-> "list",
      measurements |-> << MDMeasure(<<"A">>, <<3, 4>>, 1),
                          MDMeasure(<<"A", "B">>, <<2, 1, 0, 2>>, 2),
                          MDMeasure(<<"A">>, <<5, 5>>, 2) >>],
     [kind |-> "custom", cliques |-> << <<"B", "C">> >>]}

MDArgs ==
    {[loss_fn |-> lf, known_total |-> kt, potentials |-> po, iters |-> it,
      stepsize |-> st] :
        lf \in MDLossFns,
        kt \in {None, Some(Rat(5, 1))},
        po \in {None, Some(0), Some(1)},
        it \in 0..MaxIters,
        st \in {None, Some(AlphaScale)}}

\* the potentials argument: None, or a vector over the loss function's
\* cliques (p = 1), or over a clique that covers them all (p = 0)
MDPotentials(lf, po) ==
    IF po.none THEN None
    ELSE IF po.value = 1 THEN Some(MakeVector(loss_cliques(lf), AlphaScale))
    ELSE Some(MakeVector(<< <<"A", "B", "C">> >>, AlphaScale))

CallMD ==
    \E a \in MDArgs :
        CallMirrorDescent([a EXCEPT !.potentials = MDPotentials(a.loss_fn, @)])

NextMD ==
    \/ CallMD
    \/ Update
    \/ Return

InitMD == MDIdle /\ CVIdle /\ AIMIdle /\ FNIdle

SpecMD == InitMD /\ [][NextMD]_vars

\* every cell of every factor of the vector is 0
AllZero(v) ==
    \A cl \in KeySet(v) : \A b \in DOMAIN v.items[cl].val : v.items[cl].val[b] = 0

\* C8: mirror_descent with iters = 0 makes no update step and returns the
\* model of the initial potentials (all zero over the loss function's
\* cliques when none are passed), with marginals marginal_oracle(initial
\* potentials, total) and the known or estimated total.
C8_ZeroIterations ==
    (md_pc = "done" /\ md_args.iters = 0) =>
        LET lf == md_args.loss_fn
            total == IF md_args.known_total.none
                     THEN minimum_variance_unbiased_total(lf.measurements)
                     ELSE md_args.known_total.value
            model == md_result.value
        IN /\ md_t = 0
           /\ IF md_args.potentials.none
              THEN /\ KeySet(model.potentials) = SeqSet(loss_cliques(lf))
                   /\ NoRepeat(model.potentials.keys)
                   /\ \A cl \in KeySet(model.potentials) :
                         model.potentials.items[cl].dom = cl
                   /\ AllZero(model.potentials)
              ELSE model.potentials = md_args.potentials.value
           /\ model.marginals = marginal_oracle(model.potentials, total)
           /\ model.total = total

\* a call with iters = 0, no potentials and no known total has returned
C8_Witness ==
    /\ md_pc = "done"
    /\ md_args.iters = 0
    /\ md_args.potentials.none
    /\ md_args.known_total.none
    /\ Len(md_result.value.potentials.keys) = 2
    /\ RLess(ROne, md_result.value.total)

\* C10: in line-search mode alpha starts at 2.0 and exactly iters update
\* steps are made; a step whose test holds moves theta to theta - alpha * dL
\* and keeps alpha, a step whose test fails keeps theta and halves alpha; so
\* alpha = 2 / 2^(rejected steps).
C10_LineSearch ==
    (md_pc \in {"loop", "done"} /\ md_args.stepsize.none) =>
        /\ alpha * (2 ^ rejected) = 2 * AlphaScale
        /\ md_t = 0 => (alpha = 2 * AlphaScale /\ potentials = md_initial)
        /\ md_t <= md_args.iters
        /\ md_pc = "done" => md_t = md_args.iters
        /\ md_t > 0 =>
             LET l == md_last.value
             IN /\ potentials.keys = l.theta.keys
                /\ IF l.sufficient
                   THEN /\ alpha = l.alpha
                        /\ \A cl \in KeySet(l.theta) :
                             \A b \in Assign(AsSet(cl)) :
                                potentials.items[cl].val[b] =
                                  l.theta.items[cl].val[b]
                                  - l.alpha * l.dL.items[cl].val[b]
                   ELSE /\ 2 * alpha = l.alpha
                        /\ potentials.items = l.theta.items

\* a line search of at least two steps has returned after a rejected step
\* and an accepted step that moved theta
C10_Witness ==
    /\ md_pc = "done"
    /\ md_args.stepsize.none
    /\ md_args.iters >= 2
    /\ rejected >= 1
    /\ rejected < md_t
    /\ md_last.value.sufficient
    /\ potentials.items # md_last.value.theta.items

\* ------------------------------------------------ AIM.run: round by round
\* C11: for every non-empty workload, run does the initial round and fit,
\* then exactly floor(|workload| / 4) adaptive rounds (none when the workload
\* has fewer than 4 entries), each adding one measurement, and returns: no
\* run on a non-empty workload ends on an exception, and at the return the
\* rounds done are floor(|workload| / 4) and the measurement list has
\* |initial cliques| + floor(|workload| / 4) entries.
C11_RoundStructure ==
    /\ (runs = 1 /\ workload # <<>> /\ pc \in Resting) => pc = "done"
    /\ (runs = 1 /\ pc = "done") =>
          /\ t = Len(workload) \div 4
          /\ Len(size_limits) = Len(workload) \div 4
          /\ Len(measurements) = Len(initial_cliques) + Len(workload) \div 4

\* C12: when the initial round ends, rho_used is 0.05 * rho, split evenly
\* over the cliques measured in it, whether initial_cliques is the default
\* or a list of any length supplied by the caller.
C12_InitialAllocation ==
    (runs = 1 /\ pc = "initial" /\ Len(measurements) = Len(initial_cliques)) =>
        /\ rho_used = rho_oneway
        /\ \A i \in DOMAIN measurements :
              measurements[i].rho = RDivInt(rho_oneway, Len(initial_cliques))

\* C14: every measurement run appends records the standard deviation of the
\* noise added to it: the stddev is that of the rho_i passed to
\* zcdp_gaussian_mech for this measurement (stddev = 1 / sqrt(2 * rho_i), so
\* the two agree exactly when the two rho_i agree).
C14_RecordedStddev ==
    \A i \in DOMAIN measurements :
        measurements[i].std_rho = measurements[i].rho

RECURSIVE AddAll(_, _, _)
\* the factor f with the potentials of the cliques S of prior added to it
AddAll(f, S, prior) ==
    IF S = {} THEN f
    ELSE LET c == CHOOSE x \in S : TRUE
         IN AddAll(FactorAdd(f, prior[c]), S \ {c}, prior)

\* the potentials handed to the refit of the round that has just ended are
\* over exactly the cliques measured so far, and are the zero vector with
\* each potential of the previous model added into one clique that covers it
WarmStarted ==
    (runs = 1 /\ pc \in {"select", "done"} /\ t >= 1) =>
        LET pcliques == measured_cliques(measurements)
            before == SubSeq(measurements, 1, Len(measurements) - 1)
            prior == fitted(measured_cliques(before), t)
        IN /\ ~warm_start.none
           /\ DOMAIN warm_start.value = pcliques
           /\ \E g \in [DOMAIN prior -> pcliques] :
                 /\ \A c \in DOMAIN prior : SubsetEq(c, g[c])
                 /\ \A k \in pcliques :
                       warm_start.value[k] =
                           AddAll(FactorZeros(k),
                                  {c \in DOMAIN prior : g[c] = k}, prior)

\* C13: in every adaptive round, the potentials handed to the refit are over
\* exactly the distinct cliques measured so far and are the previous model's
\* potentials combined into that clique set, none lost, and the round
\* completes with the refit started from them.
C13_WarmStart ==
    /\ pc # "AttributeError"
    /\ WarmStarted

\* the initial cliques are the default: the one-way marginals
DefaultInitial ==
    /\ NoRepeat(initial_cliques)
    /\ SeqSet(initial_cliques) = oneway(candidates)

\* C15: with the default initial cliques and max_model_size >= 0, every
\* adaptive round hands a non-empty candidate set to worst_approximated, and
\* the clique selected and measured is one of that set: it keeps the
\* hypothetical model size within the round's size_limit or lies in the
\* downward closure of the model's cliques.
C15_SelectionNonEmpty ==
    (runs = 1 /\ DefaultInitial) =>
        /\ pc # "ValueError"
        /\ pc \in {"measure", "refit"} =>
              /\ small_candidates # {}
              /\ selected \in small_candidates
              /\ small_candidates \subseteq DOMAIN candidates
              /\ \/ RLeq(Rat(hypothetical_model_size(
                                 model_domain(model_cliques),
                                 model_cliques \cup {selected}), 1),
                         size_limits[Len(size_limits)])
                 \/ \E mc \in model_cliques : IsSubTuple(selected, mc)
        /\ pc = "refit" =>
              measurements[Len(measurements)].clique = selected

\* a round of a run with the default initial cliques and max_model_size 0:
\* the size_limit admits no candidate, the filter keeps the cliques of the
\* model's downward closure and drops the others, and one is measured
C15_Witness ==
    /\ runs = 1
    /\ DefaultInitial
    /\ max_model_size = 0
    /\ pc = "refit"
    /\ small_candidates # {}
    /\ small_candidates # DOMAIN candidates
    /\ Len(selected) = 1

====
